---------------------------- MODULE Spec2Model ----------------------------
(***************************************************************************)
(* A model of etsymail.py: the Gmail scan that extracts (order number,     *)
(* buyer e-mail) pairs from Etsy transaction mails.                        *)
(*                                                                         *)
(* A Python str is a sequence of one-character strings.  An HTML string    *)
(* is kept in the form BeautifulSoup gives it: its text and the sequence   *)
(* of its <a>/<button> elements (see Section 3).                           *)
(***************************************************************************)
EXTENDS Naturals, Sequences, FiniteSets, TLC

VARIABLES
    pc,            \* position of main: "auth", "estimate", "loop" (at the for of line
                   \* 240), "body" (in its body), "exited"; "flatten", "flattened",
                   \* "extract", "extracted" in the specifications of Section 7
    exit_status,   \* the process's exit status: <<>> while it runs, then <<status>>
    log,           \* what main printed: warnings, errors, the final summary
    csv,           \* OUTPUT_CSV: <<>> while it was never opened, then <<its lines>>
    MAX_MESSAGES,  \* the cap of line 31; 0 stands for None (both are falsy)
    gen_pc,        \* search_message_ids: "request", "iterate", "suspended" (at the
                   \* yield), "done" (returned) or "raised"
    resp,          \* search_message_ids: ids of the page being iterated
    idx,           \* search_message_ids: how many ids of resp were yielded
    seen,          \* search_message_ids: seen
    next_page,     \* search_message_ids: next_page (0 stands for None)
    listed,        \* the mailbox service: every id it has listed, in order
    requests,      \* the mailbox service: page requests it has answered
    yielded,       \* every id search_message_ids has yielded, in order
    rows,          \* main: rows
    seen_pairs,    \* main: seen_pairs
    processed,     \* main: processed
    msg_id,        \* main: msg_id of the current iteration
    payload,       \* main: payload of the message fetched last
    parts_out,     \* what iter_payload_parts(payload) produced
    subject,       \* main: subject
    html,          \* main: html
    plain,         \* main: plain
    orders,        \* main: orders
    emails         \* main: emails

vars == <<pc, exit_status, log, csv, MAX_MESSAGES, gen_pc, resp, idx, seen,
          next_page, listed, requests, yielded, rows, seen_pairs, processed,
          msg_id, payload, parts_out, subject, html, plain, orders, emails>>

-----------------------------------------------------------------------------
(* 1. Characters and the str methods the program uses                      *)

LowerLetters == <<"a", "b", "c", "d", "e", "f", "g", "h", "i", "j", "k", "l", "m",
                  "n", "o", "p", "q", "r", "s", "t", "u", "v", "w", "x", "y", "z">>
UpperLetters == <<"A", "B", "C", "D", "E", "F", "G", "H", "I", "J", "K", "L", "M",
                  "N", "O", "P", "Q", "R", "S", "T", "U", "V", "W", "X", "Y", "Z">>
DigitChars == {"0", "1", "2", "3", "4", "5", "6", "7", "8", "9"}

Range(f) == {f[i] : i \in DOMAIN f}

LetterChars == Range(LowerLetters) \cup Range(UpperLetters)
\* \w of the re module
WordChars == DigitChars \cup LetterChars \cup {"_"}
\* \s of the re module
SpaceChars == {" ", "\n", "\t", "\r"}

IsDigit(c) == c \in DigitChars
IsWordChar(c) == c \in WordChars
IsSpace(c) == c \in SpaceChars

\* str.lower(), one character
ToLower(c) ==
    IF c \in Range(UpperLetters)
    THEN LowerLetters[CHOOSE i \in DOMAIN UpperLetters : UpperLetters[i] = c]
    ELSE c

\* str.lower()
Lower(s) == [i \in 1..Len(s) |-> ToLower(s[i])]

Max(S) == CHOOSE x \in S : \A y \in S : y <= x
Min(S) == CHOOSE x \in S : \A y \in S : x <= y

\* how many characters from position i on are in C, up to the first that is not
RunIn(s, i, C) ==
    Min({j \in i..(Len(s) + 1) : j = Len(s) + 1 \/ s[j] \notin C}) - i

\* how many characters from position i on are not in C, up to the first that is
RunNotIn(s, i, C) ==
    Min({j \in i..(Len(s) + 1) : j = Len(s) + 1 \/ s[j] \in C}) - i

\* s[i:].startswith(t)
StartsWithAt(s, i, t) ==
    /\ i + Len(t) - 1 <= Len(s)
    /\ \A k \in 1..Len(t) : s[i + k - 1] = t[k]

\* t in s
Contains(s, t) == \E i \in 1..(Len(s) + 1) : StartsWithAt(s, i, t)

\* s.endswith(t)
EndsWith(s, t) == Len(t) <= Len(s) /\ StartsWithAt(s, Len(s) - Len(t) + 1, t)

\* s.strip()
Strip(s) ==
    LET keep == {i \in 1..Len(s) : ~IsSpace(s[i])}
    IN IF keep = {} THEN <<>> ELSE SubSeq(s, Min(keep), Max(keep))

RECURSIVE Join(_, _)
\* sep.join(chunks)
Join(sep, chunks) ==
    IF chunks = <<>> THEN <<>>
    ELSE IF Len(chunks) = 1 THEN chunks[1]
    ELSE chunks[1] \o sep \o Join(sep, Tail(chunks))

\* ' '.join(s.split()): runs of whitespace become one blank, the ends are stripped
RECURSIVE Collapse(_)
Collapse(s) ==
    LET t == Strip(s)
    IN IF t = <<>> THEN <<>>
       ELSE LET w == RunNotIn(t, 1, SpaceChars)
                rest == Collapse(SubSeq(t, w + 1, Len(t)))
            IN IF rest = <<>> THEN SubSeq(t, 1, w)
               ELSE SubSeq(t, 1, w) \o <<" ">> \o rest

-----------------------------------------------------------------------------
(* 2. The regular expressions                                              *)

MinDigits == 6
MaxDigits == 14

\* \b at the gap before position p (p = Len(s) + 1: the end of s)
WordBoundary(s, p) ==
    LET before == p > 1 /\ IsWordChar(s[p - 1])
        after == p <= Len(s) /\ IsWordChar(s[p])
    IN before # after

\* ORDER_RE.match at position i: the length of group 1, 0 when there is no match.
\* \d{6,14} is greedy: the longest count that lets the closing \b match wins.
ORDER_RE_MatchAt(s, i) ==
    LET run == RunIn(s, i, DigitChars)
        ks == {k \in MinDigits..MaxDigits :
                 k <= run /\ WordBoundary(s, i) /\ WordBoundary(s, i + k)}
    IN IF ks = {} THEN 0 ELSE Max(ks)

RECURSIVE ORDER_RE_Scan(_, _)
\* {m.group(1) for m in ORDER_RE.finditer(text)}, scanning from position i
ORDER_RE_Scan(s, i) ==
    IF i > Len(s) THEN {}
    ELSE LET k == ORDER_RE_MatchAt(s, i)
         IN IF k > 0 THEN {SubSeq(s, i, i + k - 1)} \cup ORDER_RE_Scan(s, i + k)
            ELSE ORDER_RE_Scan(s, i + 1)

S_order == <<"o", "r", "d", "e", "r">>

\* r"Order\s*#\s*(\d{6,14})" with re.IGNORECASE, matched at position i:
\* <<start of group 1, length of group 1>>, length 0 when there is no match
SubjectOrderMatchAt(s, i) ==
    IF ~(i + 4 <= Len(s) /\ Lower(SubSeq(s, i, i + 4)) = S_order) THEN <<0, 0>>
    ELSE LET h == i + 5 + RunIn(s, i + 5, SpaceChars)
         IN IF ~(h <= Len(s) /\ s[h] = "#") THEN <<0, 0>>
            ELSE LET d == h + 1 + RunIn(s, h + 1, SpaceChars)
                     run == RunIn(s, d, DigitChars)
                     k == IF run > MaxDigits THEN MaxDigits ELSE run
                 IN IF k >= MinDigits THEN <<d, k>> ELSE <<0, 0>>

RECURSIVE SubjectOrderScan(_, _)
\* the groups of re.finditer(r"Order\s*#\s*(\d{6,14})", subject, re.IGNORECASE)
SubjectOrderScan(s, i) ==
    IF i > Len(s) THEN {}
    ELSE LET m == SubjectOrderMatchAt(s, i)
         IN IF m[2] > 0
            THEN {SubSeq(s, m[1], m[1] + m[2] - 1)} \cup SubjectOrderScan(s, m[1] + m[2])
            ELSE SubjectOrderScan(s, i + 1)

\* [A-Z0-9._%+-] under re.IGNORECASE
EmailLocalChars == LetterChars \cup DigitChars \cup {".", "_", "%", "+", "-"}
\* [A-Z0-9.-] under re.IGNORECASE
EmailDomainChars == LetterChars \cup DigitChars \cup {".", "-"}

\* EMAIL_REGEX matched at position i: the position after the match, 0 when
\* there is none.  Each quantifier is greedy and gives back only as much as
\* the rest of the pattern needs.
EMAIL_REGEX_MatchAt(s, i) ==
    LET loc == RunIn(s, i, EmailLocalChars)
    IN IF ~(loc >= 1 /\ i + loc <= Len(s) /\ s[i + loc] = "@") THEN 0
       ELSE LET d == i + loc + 1
                run == RunIn(s, d, EmailDomainChars)
                bs == {b \in 1..run :
                         /\ d + b <= Len(s)
                         /\ s[d + b] = "."
                         /\ RunIn(s, d + b + 1, LetterChars) >= 2}
            IN IF bs = {} THEN 0
               ELSE LET b == Max(bs)
                    IN d + b + 1 + RunIn(s, d + b + 1, LetterChars)

RECURSIVE EMAIL_REGEX_Scan(_, _)
\* [m.group(0) for m in re.finditer(EMAIL_REGEX, text, re.IGNORECASE)] from position i
EMAIL_REGEX_Scan(s, i) ==
    IF i > Len(s) THEN <<>>
    ELSE LET e == EMAIL_REGEX_MatchAt(s, i)
         IN IF e > 0 THEN <<SubSeq(s, i, e - 1)>> \o EMAIL_REGEX_Scan(s, e)
            ELSE EMAIL_REGEX_Scan(s, i + 1)

\* the set holding the first of the matches ms, lowercased; {} when there is none
FirstLowered(ms) == IF ms = <<>> THEN {} ELSE {Lower(ms[1])}

\* re.search(EMAIL_REGEX, text, re.IGNORECASE): the set holding group 0 of the
\* match, lowercased as every caller does; {} when there is no match
EmailSearch(s) == FirstLowered(EMAIL_REGEX_Scan(s, 1))

S_mailto == <<"m", "a", "i", "l", "t", "o", ":">>

\* re.search(r"mailto:([^\"]+)", href, re.IGNORECASE): the set holding group 1
MailtoSearch(href) ==
    LET starts == {i \in 1..Len(href) :
                     /\ i + 6 <= Len(href)
                     /\ Lower(SubSeq(href, i, i + 6)) = S_mailto
                     /\ RunNotIn(href, i + 7, {"\""}) >= 1}
    IN IF starts = {} THEN {}
       ELSE LET i == Min(starts)
            IN {SubSeq(href, i + 7, i + 6 + RunNotIn(href, i + 7, {"\""}))}

-----------------------------------------------------------------------------
(* 3. Messages, HTML and the extraction functions                          *)
(*                                                                         *)
(* An optional value is <<>> (absent, None) or <<v>>.                      *)
(* A payload node is [mimeType, data, parts]: data is the optional         *)
(* body.data, parts the optional list of child nodes.  body.data is        *)
(* [b64ok, text, els]: whether it is well-formed base64, and what it       *)
(* decodes to.  Decoded content is [raised, text, els]; for HTML, text is  *)
(* the text outside the <a>/<button> elements and els are those elements   *)
(* in document order, each [tag, text, attrs], all children of the root.   *)

None == <<>>
Some(v) == <<v>>

\* decode_part_data: urlsafe_b64decode raises binascii.Error on malformed input
decode_part_data(d) ==
    [raised |-> ~d.b64ok,
     text |-> IF d.b64ok THEN d.text ELSE <<>>,
     els |-> IF d.b64ok THEN d.els ELSE <<>>]

RECURSIVE iter_payload_parts(_)
RECURSIVE IterChildren(_)
\* the loop of lines 99-105 over the child nodes ps
IterChildren(ps) ==
    IF ps = <<>> THEN <<>>
    ELSE LET p == ps[1]
         IN (IF p.data # None
             THEN <<[mime |-> p.mimeType, content |-> decode_part_data(p.data[1])]>>
             ELSE <<>>)
            \o iter_payload_parts(p)
            \o IterChildren(Tail(ps))

\* iter_payload_parts: the sequence of the (mime, content) pairs it yields
iter_payload_parts(node) ==
    IF node.parts # None
    THEN IterChildren(node.parts[1])
    ELSE IF node.data # None
         THEN <<[mime |-> node.mimeType, content |-> decode_part_data(node.data[1])]>>
         ELSE <<>>

S_html == <<"h", "t", "m", "l">>
S_text == <<"t", "e", "x", "t">>
S_nl == <<"\n">>
S_blank == <<" ">>

\* 'html' in mime
IsHtmlMime(m) == Contains(m, S_html)
\* the elif of line 253: 'text' in mime, and not 'html' in mime
IsTextMime(m) == ~Contains(m, S_html) /\ Contains(m, S_text)

RECURSIVE HtmlChunks(_)
\* lines 248-252: html_chunks
HtmlChunks(pairs) ==
    IF pairs = <<>> THEN <<>>
    ELSE (IF IsHtmlMime(pairs[1].mime) THEN <<pairs[1].content>> ELSE <<>>)
         \o HtmlChunks(Tail(pairs))

RECURSIVE TextChunks(_)
\* lines 248-254: text_chunks
TextChunks(pairs) ==
    IF pairs = <<>> THEN <<>>
    ELSE (IF IsTextMime(pairs[1].mime) THEN <<pairs[1].content>> ELSE <<>>)
         \o TextChunks(Tail(pairs))

RECURSIVE ConcatAll(_)
ConcatAll(ss) == IF ss = <<>> THEN <<>> ELSE ss[1] \o ConcatAll(Tail(ss))

\* line 256: '\n'.join(html_chunks), an HTML string
JoinHtml(chunks) ==
    [text |-> Join(S_nl, [i \in 1..Len(chunks) |-> chunks[i].text]),
     els |-> ConcatAll([i \in 1..Len(chunks) |-> chunks[i].els])]

\* line 257: '\n'.join(text_chunks); a text part carries no elements
JoinPlain(chunks) == Join(S_nl, [i \in 1..Len(chunks) |-> chunks[i].text])

EmptyHtml == [text |-> <<>>, els |-> <<>>]

\* the text nodes of BeautifulSoup(html, 'lxml'), in this model's document order
TextNodes(doc) ==
    (IF doc.text = <<>> THEN <<>> ELSE <<doc.text>>)
    \o [i \in 1..Len(doc.els) |-> doc.els[i].text]

NonEmpty(t) == t # <<>>

\* soup.get_text(" ")
GetText(doc) == Join(S_blank, SelectSeq(TextNodes(doc), NonEmpty))

\* el.parent.get_text(' ', strip=True): every element's parent is the root
ParentText(doc) ==
    Join(S_blank, SelectSeq([i \in 1..Len(TextNodes(doc)) |-> Strip(TextNodes(doc)[i])],
                            NonEmpty))

SEND_MAIL_CUES ==
    {<<"s", "e", "n", "d", " ", "m", "a", "i", "l">>,
     <<"s", "e", "n", "d", " ", "m", "e", "s", "s", "a", "g", "e">>,
     <<"e", "m", "a", "i", "l", " ", "b", "u", "y", "e", "r">>,
     <<"c", "o", "n", "t", "a", "c", "t", " ", "b", "u", "y", "e", "r">>,
     <<"e", "-", "p", "o", "s", "t", "a", " ", "g", "ö", "n", "d", "e", "r">>,
     <<"m", "e", "s", "a", "j", " ", "g", "ö", "n", "d", "e", "r">>}

\* any(cue in text for cue in SEND_MAIL_CUES) for text = el.get_text().strip().lower()
HasCue(el) == \E cue \in SEND_MAIL_CUES : Contains(Lower(Strip(el.text)), cue)

AUX_ATTRS == {"data-email", "data-to", "title", "aria-label"}

\* the e-mails of the attributes data-email, data-to, title, aria-label of el
AuxAttrEmails(el) ==
    UNION {EmailSearch(el.attrs[a]) : a \in AUX_ATTRS \cap DOMAIN el.attrs}

\* the e-mail of a mailto: in a's href
MailtoEmails(a) == UNION {EmailSearch(cand) : cand \in MailtoSearch(a.attrs["href"])}

NeighborhoodLen == 1500

Take(s, n) == IF Len(s) <= n THEN s ELSE SubSeq(s, 1, n)

\* extract_emails_from_html
extract_emails_from_html(doc) ==
    IF doc = EmptyHtml THEN {}
    ELSE LET links == {i \in 1..Len(doc.els) :
                         doc.els[i].tag = "a" /\ "href" \in DOMAIN doc.els[i].attrs}
             cued == {i \in 1..Len(doc.els) :
                        doc.els[i].tag \in {"a", "button"} /\ HasCue(doc.els[i])}
             tier1 == UNION {MailtoEmails(doc.els[i]) \cup AuxAttrEmails(doc.els[i]) :
                               i \in links \cap cued}
             tier2 == UNION {AuxAttrEmails(doc.els[i])
                               \cup EmailSearch(Take(Collapse(ParentText(doc)), NeighborhoodLen)) :
                               i \in cued}
             tier3 == UNION {MailtoEmails(doc.els[i]) : i \in links}
         IN tier1 \cup tier2 \cup tier3

\* extract_emails_from_text
extract_emails_from_text(text) ==
    IF text = <<>> THEN {}
    ELSE {Lower(e) : e \in Range(EMAIL_REGEX_Scan(text, 1))}

\* valid_order_numbers_from_text
valid_order_numbers_from_text(text) ==
    IF text = <<>> THEN {} ELSE ORDER_RE_Scan(text, 1)

\* extract_orders
extract_orders(subj, doc, text) ==
    (IF subj # <<>>
     THEN SubjectOrderScan(subj, 1) \cup valid_order_numbers_from_text(subj)
     ELSE {})
    \cup (IF doc # EmptyHtml THEN valid_order_numbers_from_text(GetText(doc)) ELSE {})
    \cup (IF text # <<>> THEN valid_order_numbers_from_text(text) ELSE {})

EXCLUDE_ETSY_DOMAIN == TRUE

S_at_etsy == <<"@", "e", "t", "s", "y", ".", "c", "o", "m">>

\* filter_buyer_emails without the test of line 211
filter_buyer_emails_NoExclusion(es) == {e \in es : e # <<>>}

\* filter_buyer_emails
filter_buyer_emails(es) ==
    {e \in es : e # <<>> /\ ~(EXCLUDE_ETSY_DOMAIN /\ EndsWith(e, S_at_etsy))}

\* re.fullmatch(r"\d{6,14}", o)
IsOrderNumber(o) ==
    /\ Len(o) >= MinDigits
    /\ Len(o) <= MaxDigits
    /\ \A i \in 1..Len(o) : IsDigit(o[i])

-----------------------------------------------------------------------------
(* 4. The messages the mailbox may hold                                    *)

\* "Order #12345678"
SUBJ_order ==
    <<"O", "r", "d", "e", "r", " ", "#", "1", "2", "3", "4", "5", "6", "7", "8">>
\* "12345678 sent": the same order without the Order # pattern
SUBJ_bare == <<"1", "2", "3", "4", "5", "6", "7", "8", " ", "s", "e", "n", "t">>
\* "hi 12345": five digits, no order number
SUBJ_none == <<"h", "i", " ", "1", "2", "3", "4", "5">>
\* "Order #123456 7654321": two order numbers
SUBJ_two ==
    <<"O", "r", "d", "e", "r", " ", "#", "1", "2", "3", "4", "5", "6", " ", "7", "6", "5", "4", "3", "2", "1">>
\* "Order #123456789012345": a run of fifteen digits
SUBJ_long ==
    <<"O", "r", "d", "e", "r", " ", "#", "1", "2", "3", "4", "5", "6", "7", "8", "9", "0", "1", "2", "3", "4", "5">>
MIME_html == <<"t", "e", "x", "t", "/", "h", "t", "m", "l">>
MIME_plain == <<"t", "e", "x", "t", "/", "p", "l", "a", "i", "n">>
MIME_alt ==
    <<"m", "u", "l", "t", "i", "p", "a", "r", "t", "/", "a", "l", "t", "e", "r", "n", "a", "t", "i", "v", "e">>
MIME_mixed ==
    <<"m", "u", "l", "t", "i", "p", "a", "r", "t", "/", "m", "i", "x", "e", "d">>
MIME_pdf ==
    <<"a", "p", "p", "l", "i", "c", "a", "t", "i", "o", "n", "/", "p", "d", "f">>
\* "mail jo@ab.co"
TXT_jo == <<"m", "a", "i", "l", " ", "j", "o", "@", "a", "b", ".", "c", "o">>
\* "al@ab.co"
TXT_al == <<"a", "l", "@", "a", "b", ".", "c", "o">>
\* "buyer al@ab.co"
TXT_buyer_al == <<"b", "u", "y", "e", "r", " ", "a", "l", "@", "a", "b", ".", "c", "o">>
\* "thanks"
TXT_thanks == <<"t", "h", "a", "n", "k", "s">>
HREF_al == <<"m", "a", "i", "l", "t", "o", ":", "a", "l", "@", "a", "b", ".", "c", "o">>
HREF_jo ==
    <<"m", "a", "i", "l", "t", "o", ":", "j", "o", "@", "a", "b", ".", "c", "o", "?", "s", "u", "b", "j", "e", "c", "t", "=", "h", "i">>
HREF_etsy ==
    <<"m", "a", "i", "l", "t", "o", ":", "S", "@", "E", "T", "S", "Y", ".", "C", "O", "M">>
HREF_sub ==
    <<"m", "a", "i", "l", "t", "o", ":", "n", "@", "m", ".", "e", "t", "s", "y", ".", "c", "o", "m">>
LBL_contact ==
    <<" ", "C", "o", "n", "t", "a", "c", "t", " ", "B", "u", "y", "e", "r", " ">>
LBL_send == <<"S", "e", "n", "d", " ", "M", "a", "i", "l">>
LBL_help == <<"h", "e", "l", "p">>
ADDR_jo == <<"j", "o", "@", "a", "b", ".", "c", "o">>

\* <a href="mailto:al@ab.co"> Contact Buyer </a>
EL_contact_al == [tag |-> "a", text |-> LBL_contact, attrs |-> [href |-> HREF_al]]
\* <a href="mailto:jo@ab.co?subject=hi">help</a>: no cue
EL_help_jo == [tag |-> "a", text |-> LBL_help, attrs |-> [href |-> HREF_jo]]
\* <a href="mailto:S@ETSY.COM">help</a>
EL_help_etsy == [tag |-> "a", text |-> LBL_help, attrs |-> [href |-> HREF_etsy]]
\* <a href="mailto:n@m.etsy.com">help</a>
EL_help_sub == [tag |-> "a", text |-> LBL_help, attrs |-> [href |-> HREF_sub]]
\* <button data-email="jo@ab.co">Send Mail</button>
EL_button_jo == [tag |-> "button", text |-> LBL_send, attrs |-> ("data-email" :> ADDR_jo)]

Data(text, els) == [b64ok |-> TRUE, text |-> text, els |-> els]
\* body.data that is not well-formed base64
Malformed == [b64ok |-> FALSE, text |-> <<>>, els |-> <<>>]

Leaf(mime, d) == [mimeType |-> mime, data |-> Some(d), parts |-> None]
Multipart(mime, kids) == [mimeType |-> mime, data |-> None, parts |-> Some(kids)]
EmptyNode == [mimeType |-> <<>>, data |-> None, parts |-> None]

\* the order in the subject, the buyer behind a cue link; the text part names another address
MSG_cue ==
    [subject |-> SUBJ_order,
     payload |-> Multipart(MIME_alt, <<Leaf(MIME_plain, Data(TXT_jo, <<>>)),
                                       Leaf(MIME_html, Data(TXT_thanks, <<EL_contact_al>>))>>)]
\* the same pair again, from a message that is one text/plain leaf
MSG_plain ==
    [subject |-> SUBJ_bare, payload |-> Leaf(MIME_plain, Data(TXT_al, <<>>))]
\* the HTML holds only an etsy.com address, the text part a buyer's
MSG_etsy_only ==
    [subject |-> SUBJ_order,
     payload |-> Multipart(MIME_alt, <<Leaf(MIME_html, Data(TXT_thanks, <<EL_help_etsy>>)),
                                       Leaf(MIME_plain, Data(TXT_jo, <<>>))>>)]
\* an address and no order number
MSG_no_order ==
    [subject |-> SUBJ_none, payload |-> Leaf(MIME_html, Data(<<>>, <<EL_help_jo>>))]
\* two orders, two addresses (a cue button's attribute and its neighbourhood), nested parts
MSG_two ==
    [subject |-> SUBJ_two,
     payload |-> Multipart(MIME_mixed,
                   <<Multipart(MIME_alt,
                       <<Leaf(MIME_html, Data(TXT_buyer_al, <<EL_button_jo>>))>>),
                     Leaf(MIME_pdf, Data(TXT_thanks, <<>>))>>)]
\* an address at a subdomain of etsy.com
MSG_subdomain ==
    [subject |-> SUBJ_order, payload |-> Leaf(MIME_html, Data(<<>>, <<EL_help_sub>>))]
\* a part whose body.data is not base64
MSG_malformed ==
    [subject |-> SUBJ_order,
     payload |-> Multipart(MIME_alt, <<Leaf(MIME_plain, Data(TXT_jo, <<>>)),
                                       Leaf(MIME_html, Malformed)>>)]
\* a fifteen-digit run after Order #
MSG_long ==
    [subject |-> SUBJ_long, payload |-> Leaf(MIME_plain, Data(TXT_jo, <<>>))]

Fixtures == <<MSG_cue, MSG_plain, MSG_etsy_only, MSG_no_order, MSG_two, MSG_subdomain,
              MSG_malformed, MSG_long>>

-----------------------------------------------------------------------------
(* 5. One iteration of main's loop, lines 242-284                          *)

\* lines 261-263 without the test of line 262
CollectEmails_Always(doc, text) ==
    extract_emails_from_html(doc) \cup extract_emails_from_text(text)

\* lines 261-263: the HTML candidates, and the text's only when there are none
CollectEmails(doc, text) ==
    LET fromHtml == extract_emails_from_html(doc)
    IN IF fromHtml = {} THEN fromHtml \cup extract_emails_from_text(text) ELSE fromHtml

\* line 266
CleanOrders(os) == {o \in os : IsOrderNumber(o)}

\* lines 243-267 for a fetched message: whether decoding raised, and the locals
Analyse(msg) ==
    LET pairs == iter_payload_parts(msg.payload)
        raised == \E i \in 1..Len(pairs) : pairs[i].content.raised
        doc == JoinHtml(HtmlChunks(pairs))
        text == JoinPlain(TextChunks(pairs))
    IN [raised |-> raised,
        parts_out |-> pairs,
        html |-> IF raised THEN EmptyHtml ELSE doc,
        plain |-> IF raised THEN <<>> ELSE text,
        orders |-> IF raised THEN {}
                   ELSE CleanOrders(extract_orders(msg.subject, doc, text)),
        emails |-> IF raised THEN {}
                   ELSE filter_buyer_emails(CollectEmails(doc, text))]

\* what the iteration computes for each message of Fixtures
Analysed == [k \in DOMAIN Fixtures |-> Analyse(Fixtures[k])]

\* AddPair without the test of line 275
AddPair_NoSeenCheck(acc, id, o, e) ==
    IF o = <<>> \/ e = <<>> THEN acc
    ELSE [rows |-> Append(acc.rows,
                          [message_id |-> id, order_number |-> o, buyer_email |-> e]),
          seen_pairs |-> acc.seen_pairs \cup {<<o, e>>}]

\* extract_emails_from_html on each HTML string a message of Fixtures gives
HtmlCandidates ==
    [d \in {Analysed[k].html : k \in DOMAIN Fixtures} |-> extract_emails_from_html(d)]

\* extract_emails_from_text on each plain text a message of Fixtures gives
PlainCandidates ==
    [t \in {Analysed[k].plain : k \in DOMAIN Fixtures} |-> extract_emails_from_text(t)]

\* lines 272-284 for one pair: acc is [rows, seen_pairs]
AddPair(acc, id, o, e) ==
    IF o = <<>> \/ e = <<>> THEN acc
    ELSE IF <<o, e>> \in acc.seen_pairs THEN acc
    ELSE [rows |-> Append(acc.rows,
                          [message_id |-> id, order_number |-> o, buyer_email |-> e]),
          seen_pairs |-> acc.seen_pairs \cup {<<o, e>>}]

\* the inner loop joining o with the first e-mail only
AddEmails_FirstOnly(acc, id, o, es) ==
    IF es = <<>> THEN acc ELSE AddPair(acc, id, o, es[1])

RECURSIVE AddEmails(_, _, _, _)
\* the inner loop of line 271 over the e-mails in the order es
AddEmails(acc, id, o, es) ==
    IF es = <<>> THEN acc
    ELSE AddEmails(AddPair(acc, id, o, es[1]), id, o, Tail(es))

RECURSIVE AddOrders(_, _, _, _)
\* the loop of line 270 over the orders in the order os
AddOrders(acc, id, os, es) ==
    IF os = <<>> THEN acc
    ELSE AddOrders(AddEmails(acc, id, os[1], es), id, Tail(os), es)

\* the orders in which a for loop may go through the set S
Orderings(S) ==
    {f \in [1..Cardinality(S) -> S] : \A i, j \in 1..Cardinality(S) : f[i] = f[j] => i = j}

-----------------------------------------------------------------------------
(* 6. main and the generator search_message_ids                            *)

\* the most ids the mailbox lists, the most ids on one page, the most pages
\* it serves, and the largest cap tried
MaxIds == 3
MaxPageLen == 2
MaxPages == 3
MaxCap == 2

\* sys.exit(1) of line 225 and sys.exit(2) of line 298
AuthExitStatus == 1
ListingExitStatus == 2

\* one printed line: which print, what failed, for which message, the count shown
Line(kind, cause, id, n) == [kind |-> kind, cause |-> cause, id |-> id, n |-> n]

Init ==
    /\ pc = "auth"
    /\ exit_status = None
    /\ log = <<>>
    /\ csv = None
    /\ MAX_MESSAGES \in 0..MaxCap
    /\ gen_pc = "request"
    /\ resp = [messages |-> <<>>, nextPageToken |-> 0]
    /\ idx = 0
    /\ seen = 0
    /\ next_page = 0
    /\ listed = <<>>
    /\ requests = 0
    /\ yielded = <<>>
    /\ rows = <<>>
    /\ seen_pairs = {}
    /\ processed = 0
    /\ msg_id = 0
    /\ payload = EmptyNode
    /\ parts_out = <<>>
    /\ subject = <<>>
    /\ html = EmptyHtml
    /\ plain = <<>>
    /\ orders = {}
    /\ emails = {}

genVars == <<gen_pc, resp, idx, seen, next_page, listed, requests, yielded>>
msgVars == <<payload, parts_out, subject, html, plain, orders, emails>>
accVars == <<rows, seen_pairs, processed>>

\* lines 220-221: get_service() returns
AuthOk ==
    /\ pc = "auth"
    /\ pc' = "estimate"
    /\ UNCHANGED <<exit_status, log, csv, MAX_MESSAGES, msg_id>>
    /\ UNCHANGED <<genVars, msgVars, accVars>>

\* lines 222-225: get_service() raises; sys.exit(1)
AuthFails ==
    /\ pc = "auth"
    /\ log' = Append(log, Line("HATA", "auth", 0, 0))
    /\ exit_status' = Some(AuthExitStatus)
    /\ pc' = "exited"
    /\ UNCHANGED <<csv, MAX_MESSAGES, msg_id>>
    /\ UNCHANGED <<genVars, msgVars, accVars>>

\* lines 230-236: the list call for the estimate returns
EstimateOk ==
    /\ pc = "estimate"
    /\ pc' = "loop"
    /\ UNCHANGED <<exit_status, log, csv, MAX_MESSAGES, msg_id>>
    /\ UNCHANGED <<genVars, msgVars, accVars>>

\* line 230: the list call for the estimate raises HttpError.  It is in no try
\* block: the interpreter prints the traceback and exits with status 1.
EstimateFails ==
    /\ pc = "estimate"
    /\ log' = Append(log, Line("Traceback", "list", 0, 0))
    /\ exit_status' = Some(1)
    /\ pc' = "exited"
    /\ UNCHANGED <<csv, MAX_MESSAGES, msg_id>>
    /\ UNCHANGED <<genVars, msgVars, accVars>>

\* lines 75-77: search_message_ids asks for a page and the service answers with
\* n more ids and, if more, a continuation token
GenRequestOk ==
    /\ pc = "loop"
    /\ gen_pc = "request"
    /\ requests < MaxPages
    /\ \E n \in 0..MaxPageLen, more \in BOOLEAN :
         /\ Len(listed) + n <= MaxIds
         /\ more => requests + 1 < MaxPages
         /\ resp' = [messages |-> [i \in 1..n |-> Len(listed) + i],
                     nextPageToken |-> IF more THEN requests + 1 ELSE 0]
         /\ listed' = listed \o [i \in 1..n |-> Len(listed) + i]
    /\ requests' = requests + 1
    /\ idx' = 0
    /\ gen_pc' = "iterate"
    /\ UNCHANGED <<pc, exit_status, log, csv, MAX_MESSAGES, msg_id>>
    /\ UNCHANGED <<seen, next_page, yielded, msgVars, accVars>>

\* lines 75-77, 296-298: the page request raises HttpError, which leaves the
\* generator and the for statement of line 240; sys.exit(2).  Lines 301-311
\* stand in the same except block after sys.exit(2) and are never executed.
GenRequestFails ==
    /\ pc = "loop"
    /\ gen_pc = "request"
    /\ log' = Append(log, Line("HATA", "list", 0, 0))
    /\ exit_status' = Some(ListingExitStatus)
    /\ pc' = "exited"
    /\ gen_pc' = "raised"
    /\ UNCHANGED <<csv, MAX_MESSAGES, msg_id>>
    /\ UNCHANGED <<resp, idx, seen, next_page, listed, requests, yielded>>
    /\ UNCHANGED <<msgVars, accVars>>

\* lines 78-79: the next id of the page is yielded to the loop body
GenYield ==
    /\ pc = "loop"
    /\ gen_pc = "iterate"
    /\ idx < Len(resp.messages)
    /\ msg_id' = resp.messages[idx + 1]
    /\ idx' = idx + 1
    /\ yielded' = Append(yielded, resp.messages[idx + 1])
    /\ gen_pc' = "suspended"
    /\ pc' = "body"
    /\ UNCHANGED <<exit_status, log, csv, MAX_MESSAGES>>
    /\ UNCHANGED <<resp, seen, next_page, listed, requests, msgVars, accVars>>

\* lines 83-85: the page is used up
GenPageEnd ==
    /\ pc = "loop"
    /\ gen_pc = "iterate"
    /\ idx >= Len(resp.messages)
    /\ next_page' = resp.nextPageToken
    /\ gen_pc' = IF resp.nextPageToken = 0 THEN "done" ELSE "request"
    /\ UNCHANGED <<pc, exit_status, log, csv, MAX_MESSAGES, msg_id>>
    /\ UNCHANGED <<resp, idx, seen, listed, requests, yielded, msgVars, accVars>>

\* the test of line 81 with > for >=
CapReached_OffByOne(cap, n) == cap # 0 /\ n > cap

\* whether the generator returns after counting one more id
CapReached(cap, n) == cap # 0 /\ n >= cap

\* lines 80-82: the loop asks for the next id and the generator resumes
GenResume ==
    /\ pc = "loop"
    /\ gen_pc = "suspended"
    /\ seen' = seen + 1
    /\ gen_pc' = IF CapReached(MAX_MESSAGES, seen + 1) THEN "done" ELSE "iterate"
    /\ UNCHANGED <<pc, exit_status, log, csv, MAX_MESSAGES, msg_id>>
    /\ UNCHANGED <<resp, idx, next_page, listed, requests, yielded, msgVars, accVars>>

\* line 242, 291-292: get_message_full raises HttpError
FetchFails ==
    /\ pc = "body"
    /\ log' = Append(log, Line("Uyari", "fetch", msg_id, 0))
    /\ pc' = "loop"
    /\ UNCHANGED <<exit_status, csv, MAX_MESSAGES, msg_id>>
    /\ UNCHANGED <<genVars, msgVars, accVars>>

\* ParseFails with the handler of line 293 printing the warning and raising again
ParseFails_Reraises ==
    /\ pc = "body"
    /\ \E k \in DOMAIN Fixtures :
         /\ Analysed[k].raised
         /\ payload' = Fixtures[k].payload
         /\ subject' = Fixtures[k].subject
         /\ parts_out' = Analysed[k].parts_out
    /\ log' = Append(log, Line("Uyari", "parse", msg_id, 0))
    /\ exit_status' = Some(1)
    /\ pc' = "exited"
    /\ UNCHANGED <<csv, MAX_MESSAGES, msg_id>>
    /\ UNCHANGED <<genVars, html, plain, orders, emails, accVars>>

\* lines 242-250, 293-294: the message is fetched and decoding a part raises
ParseFails ==
    /\ pc = "body"
    /\ \E k \in DOMAIN Fixtures :
         /\ Analysed[k].raised
         /\ payload' = Fixtures[k].payload
         /\ subject' = Fixtures[k].subject
         /\ parts_out' = Analysed[k].parts_out
    /\ log' = Append(log, Line("Uyari", "parse", msg_id, 0))
    /\ pc' = "loop"
    /\ UNCHANGED <<exit_status, csv, MAX_MESSAGES, msg_id>>
    /\ UNCHANGED <<genVars, html, plain, orders, emails, accVars>>

\* lines 270-284 with the loops going through orders and emails in the orders os, es
AppendRows(rs, sp, id, os, es) == AddOrders([rows |-> rs, seen_pairs |-> sp], id, os, es)

\* lines 242-289: the message is fetched and the iteration runs to its end
ProcessMessage ==
    /\ pc = "body"
    /\ \E k \in DOMAIN Fixtures :
         /\ ~Analysed[k].raised
         /\ payload' = Fixtures[k].payload
         /\ subject' = Fixtures[k].subject
         /\ parts_out' = Analysed[k].parts_out
         /\ html' = Analysed[k].html
         /\ plain' = Analysed[k].plain
         /\ orders' = Analysed[k].orders
         /\ emails' = Analysed[k].emails
         /\ \E os \in Orderings(Analysed[k].orders), es \in Orderings(Analysed[k].emails) :
              LET acc == AppendRows(rows, seen_pairs, msg_id, os, es)
              IN /\ rows' = acc.rows
                 /\ seen_pairs' = acc.seen_pairs
    /\ processed' = processed + 1
    /\ pc' = "loop"
    /\ UNCHANGED <<exit_status, log, csv, MAX_MESSAGES, msg_id, genVars>>

\* line 313: the loop has ended; the summary is printed and main returns.
\* The block that writes OUTPUT_CSV (lines 301-311) belongs to the except
\* clause of line 296 and is not on this path.
Finish ==
    /\ pc = "loop"
    /\ gen_pc = "done"
    /\ log' = Append(log, Line("Tamamlandi", "", 0, Len(rows)))
    /\ exit_status' = Some(0)
    /\ pc' = "exited"
    /\ UNCHANGED <<csv, MAX_MESSAGES, msg_id>>
    /\ UNCHANGED <<genVars, msgVars, accVars>>

Next ==
    \/ AuthOk
    \/ AuthFails
    \/ EstimateOk
    \/ EstimateFails
    \/ GenRequestOk
    \/ GenRequestFails
    \/ GenYield
    \/ GenPageEnd
    \/ GenResume
    \/ FetchFails
    \/ ParseFails
    \/ ProcessMessage
    \/ Finish

Spec == Init /\ [][Next]_vars

-----------------------------------------------------------------------------
(* 7. iter_payload_parts and extract_orders on their own                   *)

\* the deepest payload tree and the most children of a node
MaxDepth == 2
MaxKids == 2

\* leaves: an HTML part, a text part, a part without body data
PayloadLeaves ==
    {Leaf(MIME_html, Data(TXT_thanks, <<EL_help_jo>>)),
     Leaf(MIME_plain, Data(TXT_jo, <<>>)),
     [mimeType |-> MIME_plain, data |-> None, parts |-> None]}

\* trees: a multipart node has no body data of its own
Grow(trees) ==
    trees \cup {Multipart(MIME_alt, kids) :
                  kids \in UNION {[1..n -> trees] : n \in 0..MaxKids}}

RECURSIVE PayloadTrees(_)
PayloadTrees(depth) ==
    IF depth = 0 THEN PayloadLeaves ELSE Grow(PayloadTrees(depth - 1))

InitFlatten ==
    /\ pc = "flatten"
    /\ payload \in PayloadTrees(MaxDepth)
    /\ exit_status = None
    /\ log = <<>>
    /\ csv = None
    /\ MAX_MESSAGES = 0
    /\ gen_pc = "request"
    /\ resp = [messages |-> <<>>, nextPageToken |-> 0]
    /\ idx = 0
    /\ seen = 0
    /\ next_page = 0
    /\ listed = <<>>
    /\ requests = 0
    /\ yielded = <<>>
    /\ rows = <<>>
    /\ seen_pairs = {}
    /\ processed = 0
    /\ msg_id = 0
    /\ parts_out = <<>>
    /\ subject = <<>>
    /\ html = EmptyHtml
    /\ plain = <<>>
    /\ orders = {}
    /\ emails = {}

\* line 250: the loop drains iter_payload_parts(payload)
FlattenStep ==
    /\ pc = "flatten"
    /\ parts_out' = iter_payload_parts(payload)
    /\ pc' = "flattened"
    /\ UNCHANGED <<exit_status, log, csv, MAX_MESSAGES, msg_id, genVars, accVars>>
    /\ UNCHANGED <<payload, subject, html, plain, orders, emails>>

NextFlatten == FlattenStep

SpecFlatten == InitFlatten /\ [][NextFlatten]_vars

\* the most segments a subject is made of
MaxSegs == 3

S_digits ==
    <<"1", "2", "3", "4", "5", "6", "7", "8", "9", "0", "1", "2", "3", "4", "5", "6">>
S_order_hash == <<"O", "r", "d", "e", "r", " ", "#">>

\* digit runs one shorter than the least length, of the least and of the
\* greatest length, and one longer than the greatest
RunLengths == {MinDigits - 1, MinDigits, MaxDigits, MaxDigits + 1}

Segments ==
    {SubSeq(S_digits, 1, n) : n \in RunLengths} \cup {S_order_hash, <<"x">>, <<" ">>}

\* the texts made of at most n segments
TextsOf(n) == {ConcatAll(segs) : segs \in UNION {[1..k -> Segments] : k \in 0..n}}

HtmlDocs == {EmptyHtml, [text |-> SubSeq(S_digits, 1, MinDigits), els |-> <<EL_help_jo>>]}

InitOrders ==
    /\ pc = "extract"
    /\ subject \in TextsOf(MaxSegs)
    /\ html \in HtmlDocs
    /\ plain \in TextsOf(1)
    /\ exit_status = None
    /\ log = <<>>
    /\ csv = None
    /\ MAX_MESSAGES = 0
    /\ gen_pc = "request"
    /\ resp = [messages |-> <<>>, nextPageToken |-> 0]
    /\ idx = 0
    /\ seen = 0
    /\ next_page = 0
    /\ listed = <<>>
    /\ requests = 0
    /\ yielded = <<>>
    /\ rows = <<>>
    /\ seen_pairs = {}
    /\ processed = 0
    /\ msg_id = 0
    /\ payload = EmptyNode
    /\ parts_out = <<>>
    /\ orders = {}
    /\ emails = {}

\* line 260: extract_orders(subject, html, plain)
ExtractOrdersStep ==
    /\ pc = "extract"
    /\ orders' = extract_orders(subject, html, plain)
    /\ pc' = "extracted"
    /\ UNCHANGED <<exit_status, log, csv, MAX_MESSAGES, msg_id, genVars, accVars>>
    /\ UNCHANGED <<payload, parts_out, subject, html, plain, emails>>

NextOrders == ExtractOrdersStep

SpecOrders == InitOrders /\ [][NextOrders]_vars

-----------------------------------------------------------------------------
(* 8. The claims                                                           *)

PairOf(row) == <<row.order_number, row.buyer_email>>
PairsOf(rs) == {PairOf(rs[i]) : i \in 1..Len(rs)}
\* the step is a complete iteration of the loop body (line 286)
IterationDone == processed' = processed + 1
\* the step prints a per-message warning (lines 292, 294)
WarningPrinted == Len(log') = Len(log) + 1 /\ log'[Len(log')].kind = "Uyari"
\* the rows the step appended
NewRows == SubSeq(rows', Len(rows) + 1, Len(rows'))

\* C1: at every point of the run no two rows carry the same (order_number,
\* buyer_email), and seen_pairs holds exactly the pairs of the rows, so that a
\* pair met again, in the same or in a later message, is dropped.
C1_GlobalUniqueness ==
    /\ \A i, j \in 1..Len(rows) : PairOf(rows[i]) = PairOf(rows[j]) => i = j
    /\ seen_pairs = PairsOf(rows)

\* C1, its case: a message processed without failure resolved to a pair that a
\* row of an earlier message already carries.
C1_Witness ==
    /\ pc = "loop"
    /\ gen_pc = "suspended"
    /\ log = <<>>
    /\ \E i \in 1..Len(rows) :
         /\ rows[i].message_id < msg_id
         /\ PairOf(rows[i]) \in orders \X emails

S_header == <<"order_number", "buyer_email">>

\* what lines 301-311 write for the rows rs: the header, then one line per row
CsvOf(rs) == <<S_header>> \o [i \in 1..Len(rs) |-> PairOf(rs[i])]

\* C2: a run that ends after the loop (status 0, summary printed) has written
\* the table once: the header and one line per accepted pair.
C2_TableWrittenAtEnd ==
    exit_status = Some(0) => csv = Some(CsvOf(rows))

\* C3: a step in which fetching or decoding a message fails prints the warning
\* with the message's id, leaves rows, seen_pairs and processed as they were,
\* does not exit, and returns to the for statement with the generator still
\* suspended at its yield, so that the next id is asked for.
C3_MessageFailureIsLocal ==
    [][WarningPrinted =>
         /\ log'[Len(log')].id = msg_id
         /\ rows' = rows
         /\ seen_pairs' = seen_pairs
         /\ processed' = processed
         /\ exit_status' = None
         /\ pc' = "loop"
         /\ gen_pc' = "suspended"]_vars

\* C3, its case: a message failed and a later message contributed a row.
C3_Witness ==
    \E i \in 1..Len(log), j \in 1..Len(rows) :
        /\ log[i].kind = "Uyari"
        /\ log[i].cause = "parse"
        /\ rows[j].message_id > log[i].id

\* C4: a run that a failed list call has ended has an exit status other than
\* that of an authentication failure.
C4_ListFailureStatusDiffers ==
    (\E i \in 1..Len(log) : log[i].cause = "list") =>
        exit_status # None /\ exit_status # Some(AuthExitStatus)

RECURSIVE LeavesWithData(_)
RECURSIVE LeavesOfChildren(_)
LeavesOfChildren(ps) ==
    IF ps = <<>> THEN <<>> ELSE LeavesWithData(ps[1]) \o LeavesOfChildren(Tail(ps))

\* the leaves of a payload tree that have body data, in depth-first pre-order
LeavesWithData(node) ==
    IF node.parts # None THEN LeavesOfChildren(node.parts[1])
    ELSE IF node.data # None
         THEN <<[mime |-> node.mimeType, content |-> decode_part_data(node.data[1])]>>
         ELSE <<>>

\* C5: iter_payload_parts yields one pair for each leaf that has body data, in
\* depth-first pre-order, and nothing else.
C5_EachLeafOnce ==
    pc = "flattened" => parts_out = LeavesWithData(payload)

\* o occurs in s as a complete digit run of 6 to 14 digits between word boundaries
IsCompleteRunOf(o, s) ==
    /\ IsOrderNumber(o)
    /\ \E i \in 1..Len(s) :
         /\ StartsWithAt(s, i, o)
         /\ i = 1 \/ s[i - 1] \notin WordChars
         /\ i + Len(o) > Len(s) \/ s[i + Len(o)] \notin WordChars

\* C9: every candidate of extract_orders is a complete word-bounded run of 6 to
\* 14 digits of the subject, of the HTML's text or of the plain text.
C9_OnlyCompleteRuns ==
    pc = "extracted" =>
        \A o \in orders :
            \/ IsCompleteRunOf(o, subject)
            \/ IsCompleteRunOf(o, GetText(html))
            \/ IsCompleteRunOf(o, plain)

\* C6: no row has an empty order_number or buyer_email; and an iteration that
\* runs to its end leaves in orders only strings of 6 to 14 digits and in
\* emails no empty string, appends after the old rows exactly one row
\* of this message for each pair of orders x emails not in seen_pairs, has
\* every pair of orders x emails among the rows afterwards, changes nothing
\* when orders or emails is empty, and neither prints a warning nor exits.
C6_CrossJoin ==
    /\ [](\A i \in 1..Len(rows) :
            rows[i].order_number # <<>> /\ rows[i].buyer_email # <<>>)
    /\ [][IterationDone =>
            /\ \A o \in orders' : IsOrderNumber(o)
            /\ \A e \in emails' : e # <<>>
            /\ SubSeq(rows', 1, Len(rows)) = rows
            /\ PairsOf(NewRows) = (orders' \X emails') \ seen_pairs
            /\ Len(NewRows) = Cardinality((orders' \X emails') \ seen_pairs)
            /\ \A i \in 1..Len(NewRows) : NewRows[i].message_id = msg_id
            /\ (orders' \X emails') \subseteq PairsOf(rows')
            /\ seen_pairs' = seen_pairs \cup (orders' \X emails')
            /\ (orders' = {} \/ emails' = {}) => rows' = rows /\ seen_pairs' = seen_pairs
            /\ log' = log
            /\ exit_status' = None
            /\ pc' = "loop"]_vars

\* C6, its case: one message gave two orders and two e-mails, and four rows.
C6_Witness ==
    /\ processed = 1
    /\ Cardinality(orders) = 2
    /\ Cardinality(emails) = 2
    /\ Len(rows) = 4

S_etsy_com == <<"e", "t", "s", "y", ".", "c", "o", "m">>

\* C7 as stated: no row's buyer_email ends with etsy.com.
C7_NoRowEndsWithEtsyCom ==
    \A i \in 1..Len(rows) : ~EndsWith(rows[i].buyer_email, S_etsy_com)

\* the candidates extracted for a message: those of its HTML, or, when the
\* HTML gives none, those of its plain text
Extracted(doc, text) ==
    IF HtmlCandidates[doc] # {} THEN HtmlCandidates[doc] ELSE PlainCandidates[text]

\* C7 as amended: no row's buyer_email ends with @etsy.com, whichever tier or
\* fallback gave the address; and an iteration all of whose extracted
\* candidates end with @etsy.com appends no row.
C7_NoRowAtEtsyCom ==
    /\ [](\A i \in 1..Len(rows) : ~EndsWith(rows[i].buyer_email, S_at_etsy))
    /\ [][(/\ IterationDone
           /\ Extracted(html', plain') # {}
           /\ \A c \in Extracted(html', plain') : EndsWith(c, S_at_etsy))
          => rows' = rows]_vars

\* C7, its case: the message has an order, its only candidate is an etsy.com
\* address, and it gave no row.
C7_Witness ==
    /\ processed = 1
    /\ orders # {}
    /\ Extracted(html, plain) # {}
    /\ \A c \in Extracted(html, plain) : EndsWith(c, S_at_etsy)
    /\ rows = <<>>

\* C8: in an iteration whose HTML gives a candidate, emails and the new rows
\* hold only HTML candidates; in one whose HTML gives none, emails are the
\* filtered candidates of the plain text.
C8_PlainOnlyWhenHtmlEmpty ==
    [][IterationDone =>
         /\ HtmlCandidates[html'] # {} =>
              /\ emails' \subseteq HtmlCandidates[html']
              /\ \A i \in 1..Len(NewRows) :
                   NewRows[i].buyer_email \in HtmlCandidates[html']
         /\ HtmlCandidates[html'] = {} =>
              emails' = filter_buyer_emails(PlainCandidates[plain'])]_vars

\* C8, its case: every HTML candidate was excluded, the plain text holds an
\* address that would pass the filter, and no e-mail is left.
C8_Witness ==
    /\ processed >= 1
    /\ HtmlCandidates[html] # {}
    /\ filter_buyer_emails(HtmlCandidates[html]) = {}
    /\ filter_buyer_emails(PlainCandidates[plain]) # {}
    /\ emails = {}

\* C10: the ids yielded are the first ids listed, in listing order; with a cap
\* N >= 1 never more than N; a generator that has returned has yielded N ids,
\* or every id of every page with the last page carrying no token; each
\* further page is asked for with the token of the page before; and no page is
\* asked for once N ids were yielded.
C10_CapAndPaging ==
    /\ [](/\ yielded = SubSeq(listed, 1, Len(yielded))
          /\ MAX_MESSAGES >= 1 => Len(yielded) <= MAX_MESSAGES
          /\ gen_pc = "done" =>
               \/ MAX_MESSAGES >= 1 /\ Len(yielded) = MAX_MESSAGES
               \/ yielded = listed /\ resp.nextPageToken = 0
          /\ (gen_pc = "request" /\ requests > 0) =>
               next_page # 0 /\ next_page = resp.nextPageToken)
    /\ [][requests' # requests =>
            MAX_MESSAGES = 0 \/ Len(yielded) < MAX_MESSAGES]_vars

\* C10, its case: with a cap of 2 the generator returned in the middle of the
\* second page, after two of the three ids listed.
C10_Witness ==
    /\ gen_pc = "done"
    /\ MAX_MESSAGES = 2
    /\ requests = 2
    /\ Len(listed) = 3
    /\ Len(yielded) = 2

=============================================================================
